---------------------------- MODULE Spec2Model ----------------------------
(* A model of the JIRA popup extension (src/main.js): the form validator,   *)
(* the URL builders, the payload mappers, the table renderer and the        *)
(* request orchestration around fetch.                                      *)
(*                                                                          *)
(* JavaScript strings are sequences of tokens (a token is a TLA+ string     *)
(* standing for one character or for one fixed piece of a template          *)
(* literal); concatenation is \o.  Whitespace of the templates is dropped,  *)
(* as the tests of src/main.test.js do before comparing.                    *)
EXTENDS Integers, Sequences, FiniteSets, Bags, TLC

VARIABLES
  projectElement,  \* value of the #project input
  statusSelect,    \* value of the #statusSelect select
  inStatusFor,     \* value of the #daysPast input
  userElement,     \* value of the #user input
  queryResult,     \* the results sink: [html, hidden]
  statusElement,   \* the status line: [html, hidden]
  startup,         \* position of handleContentLoaded and the response it got
  options,         \* loadOptions: "unrequested", "pending" (callback due) or "loaded"
  onclick,         \* the two buttons have their click handlers
  inflight,        \* the bag of click handlers suspended at an await
  step,            \* what the last handler step did (position of that handler)
  call,            \* pure-function harness: the exported function and its arguments
  ret              \* pure-function harness: the value it returned

vars == <<projectElement, statusSelect, inStatusFor, userElement, queryResult,
          statusElement, startup, options, onclick, inflight, step, call,
          ret>>

uiVars == <<projectElement, statusSelect, inStatusFor, userElement, queryResult,
            statusElement, startup, options, onclick, inflight, step>>

-----------------------------------------------------------------------------
(* Bounds of the model.                                                     *)

MaxStrLen == 2     \* longest daysInStatus string handed to isValid
MaxNum == 2        \* numbers handed to isValid range over -MaxNum..MaxNum
MaxRows == 2       \* longest row sequence handed to resultsTable
MaxInFlight == 2   \* most click handlers awaiting a response at once

-----------------------------------------------------------------------------
(* JavaScript values: strings, numbers and NaN.                             *)

Str(s) == [t |-> "str", n |-> 0, s |-> s]
Num(n) == [t |-> "num", n |-> n, s |-> <<>>]
NaN == [t |-> "nan", n |-> 0, s |-> <<>>]

Digits == {"0", "1", "2", "3", "4", "5", "6", "7", "8", "9"}

DigitVal(c) ==
  CASE c = "0" -> 0 [] c = "1" -> 1 [] c = "2" -> 2 [] c = "3" -> 3
    [] c = "4" -> 4 [] c = "5" -> 5 [] c = "6" -> 6 [] c = "7" -> 7
    [] c = "8" -> 8 [] OTHER -> 9

DigitChar(d) ==
  CASE d = 0 -> "0" [] d = 1 -> "1" [] d = 2 -> "2" [] d = 3 -> "3"
    [] d = 4 -> "4" [] d = 5 -> "5" [] d = 6 -> "6" [] d = 7 -> "7"
    [] d = 8 -> "8" [] OTHER -> "9"

WhiteSpace == {" "}

\* String.prototype.trim, as StringToNumber applies it to its argument
RECURSIVE TrimLeft(_)
TrimLeft(s) ==
  IF s # <<>> /\ Head(s) \in WhiteSpace THEN TrimLeft(Tail(s)) ELSE s

RECURSIVE TrimRight(_)
TrimRight(s) ==
  IF s # <<>> /\ s[Len(s)] \in WhiteSpace
    THEN TrimRight(SubSeq(s, 1, Len(s) - 1))
    ELSE s

Trim(s) == TrimRight(TrimLeft(s))

AllDigits(s) == s # <<>> /\ \A i \in 1..Len(s) : s[i] \in Digits

RECURSIVE DigitsValue(_)
DigitsValue(s) ==
  IF s = <<>> THEN 0
  ELSE 10 * DigitsValue(SubSeq(s, 1, Len(s) - 1)) + DigitVal(s[Len(s)])

\* ECMAScript StringToNumber: trimmed; empty is 0; an optionally signed run of
\* decimal digits is its value; anything else is NaN
StringToNumber(s) ==
  LET t == Trim(s) IN
  IF t = <<>> THEN Num(0)
  ELSE IF AllDigits(t) THEN Num(DigitsValue(t))
  ELSE IF Head(t) = "-" /\ AllDigits(Tail(t)) THEN Num(0 - DigitsValue(Tail(t)))
  ELSE IF Head(t) = "+" /\ AllDigits(Tail(t)) THEN Num(DigitsValue(Tail(t)))
  ELSE NaN

ToNumber(v) == IF v.t = "str" THEN StringToNumber(v.s) ELSE v

\* ToBoolean: "", 0 and NaN are falsy
ToBoolean(v) ==
  CASE v.t = "str" -> v.s # <<>>
    [] v.t = "num" -> v.n # 0
    [] OTHER -> FALSE

\* the global isNaN(v)
isNaN(v) == ToNumber(v).t = "nan"

\* v < 0: both operands go through ToNumber; a NaN operand makes it false
LessThanZero(v) == LET x == ToNumber(v) IN x.t = "num" /\ x.n < 0

\* v === ""
IsEmptyString(v) == v.t = "str" /\ v.s = <<>>

RECURSIVE NatToString(_)
NatToString(n) ==
  IF n < 10 THEN <<DigitChar(n)>>
  ELSE NatToString(n \div 10) \o <<DigitChar(n % 10)>>

\* ToString, as a template literal applies it to ${v}
JSToString(v) ==
  CASE v.t = "str" -> v.s
    [] v.t = "num" -> IF v.n < 0 THEN <<"-">> \o NatToString(0 - v.n)
                                 ELSE NatToString(v.n)
    [] OTHER -> <<"N", "a", "N">>

\* Array.prototype.join over an array of strings
RECURSIVE Join(_, _)
Join(items, sep) ==
  IF items = <<>> THEN <<>>
  ELSE IF Len(items) = 1 THEN items[1]
  ELSE items[1] \o sep \o Join(Tail(items), sep)

-----------------------------------------------------------------------------
(* Validator (main.js 60-79).                                               *)

invalidProject ==
  <<"A valid project name is required and can not be empty example: (sunshine)">>
invalidStatus ==
  <<"A valid status is required and can not be empty example: (1 for Open or 3 for In process)">>
invalidStatusFor ==
  <<"A valid number of days is required and must be a positive number">>

\* the test of line 73
DaysCheckFails(days) == IsEmptyString(days) \/ isNaN(days) \/ LessThanZero(days)

\* isValid with the status check made before the project check
isValid_StatusFirst(project, status, days) ==
  LET e1 == IF ~ToBoolean(status) THEN <<invalidStatus>> ELSE <<>>
      e2 == IF ~ToBoolean(project) THEN e1 \o <<invalidProject>> ELSE e1
      e3 == IF DaysCheckFails(days) THEN e2 \o <<invalidStatusFor>> ELSE e2
  IN  IF Len(e3) # 0 THEN [valid |-> FALSE, errors |-> e3]
                     ELSE [valid |-> TRUE, errors |-> <<>>]

isValid(project, status, days) ==
  LET e1 == IF ~ToBoolean(project) THEN <<invalidProject>> ELSE <<>>
      e2 == IF ~ToBoolean(status) THEN e1 \o <<invalidStatus>> ELSE e1
      e3 == IF DaysCheckFails(days) THEN e2 \o <<invalidStatusFor>> ELSE e2
  IN  IF Len(e3) # 0 THEN [valid |-> FALSE, errors |-> e3]
                     ELSE [valid |-> TRUE, errors |-> <<>>]

-----------------------------------------------------------------------------
(* URL builders (main.js 88-92, 146-147).                                   *)

defaultMaxResults == 100

queryURL4(project, status, days, maxResults) ==
  <<"https://jira.secondlife.com/rest/api/2/search?jql=", "project=">>
    \o JSToString(project) \o <<"+and+status=">> \o JSToString(status)
    \o <<"+and+status+changed+to+">> \o JSToString(status)
    \o <<"+before+-">> \o JSToString(days)
    \o <<"d&fields=id,status,key,assignee,summary&maxresults=">>
    \o JSToString(maxResults)

\* queryURL called with three arguments, as handleQueryClick calls it
queryURL(project, status, days) ==
  queryURL4(project, status, days, Num(defaultMaxResults))

feedURL(user) ==
  <<"https://jira.secondlife.com/activity?maxResults=50&streams=user+IS+">>
    \o JSToString(user) \o <<"&providers=issues">>

-----------------------------------------------------------------------------
(* Payload mappers (main.js 99-112, 154-170, 236-242).                      *)

\* one issue of the search response
Issue(key, description, iconUrl, name, summary) ==
  [key |-> key,
   fields |-> [status |-> [description |-> description, iconUrl |-> iconUrl,
                           name |-> name],
               summary |-> summary]]

QueryRow(i) ==
  <<"<tr>", "<td>">> \o JSToString(i.key) \o <<"</td>", "<td>", "<span title=\"">>
    \o JSToString(i.fields.status.description) \o <<"\">", "<img src=\"">>
    \o JSToString(i.fields.status.iconUrl) \o <<"\" />", "<span>">>
    \o JSToString(i.fields.status.name)
    \o <<"</span>", "</span>", "</td>", "<td>">>
    \o JSToString(i.fields.summary) \o <<"</td>", "</tr>">>

buildQueryItems(items) == [k \in 1..Len(items) |-> QueryRow(items[k])]

\* the markup tokens DOMParser drops from textContent
Tags == {"<div>", "</div>", "<span>", "</span>", "<b>", "</b>", "<a>", "</a>"}

IsText(tok) == tok \notin Tags

domify(str) == SelectSeq(str, IsText)

\* new Date(updated).toLocaleString(), in the en-US locale and UTC
toLocaleString(updated) ==
  CASE updated = <<"2019-03-01T10:00:00.000Z">> -> <<"3/1/2019, 10:00:00 AM">>
    [] updated = <<"2019-03-02T11:30:00.000Z">> -> <<"3/2/2019, 11:30:00 AM">>
    [] OTHER -> <<"Invalid Date">>

FeedRow(e) ==
  <<"<tr>", "<td>">> \o toLocaleString(e.updated) \o <<"</td>", "<td>">>
    \o domify(e.title) \o <<"</td>", "</tr>">>

\* result.getElementsByTagName("feed")[0] is undefined in a document with no
\* feed element, and reading a property of it throws a TypeError
buildFeedItems(doc) ==
  IF ~doc.feed
    THEN [threw |-> TRUE, items |-> <<>>]
    ELSE [threw |-> FALSE,
          items |-> [k \in 1..Len(doc.entries) |-> FeedRow(doc.entries[k])]]

-----------------------------------------------------------------------------
(* Table renderer (main.js 193-212).                                        *)

QueryHeader == <<"<tr>", "<th>Issue</th>", "<th>Status</th>", "<th>Summary</th>", "</tr>">>
ActivityHeader == <<"<tr>", "<th>Date</th>", "<th>Activity</th>", "</tr>">>

EmptyRow(queryName) ==
  <<"<tr>", "<td colspan=\"3\">", "There are no ">> \o queryName
    \o <<" results", "</td>", "</tr>">>

TableHead(queryName) ==
  <<"<h5>">> \o queryName \o <<" Results</h5>", "<table width=\"100%\">", "<thead>">>

\* the body with the rows joined last to first
TableBody_Reversed(items, queryName) ==
  IF Len(items) # 0
    THEN Join([k \in 1..Len(items) |-> items[Len(items) + 1 - k]], <<>>)
    ELSE EmptyRow(queryName)

TableBody(items, queryName) ==
  IF Len(items) # 0 THEN Join(items, <<>>) ELSE EmptyRow(queryName)

\* queryType is "query", or "null" (the default), or another string
resultsTable(items, queryName, queryType) ==
  TableHead(queryName)
    \o (IF queryType = "query" THEN QueryHeader ELSE ActivityHeader)
    \o <<"</thead>", "<tbody>">> \o TableBody(items, queryName)
    \o <<"</tbody>", "</table>">>

-----------------------------------------------------------------------------
(* DOM updates and error handling (main.js 20-23, 220-228, 311-321).        *)

updateStatus(message, error) ==
  [html |-> IF error THEN <<"ERROR. ">> \o message ELSE message, hidden |-> FALSE]

buildResultsTable(items, queryName, queryType) ==
  [html |-> resultsTable(items, queryName, queryType), hidden |-> FALSE]

loginMessage == <<"You must be logged in to JIRA to see this project.">>

\* json.errorMessages.join throws a TypeError when the body has no errorMessages;
\* the 401 branch never reads the body
handleErrorThrows(json, status) == status # 401 /\ ~json.hasMsgs

handleError(json, status) ==
  updateStatus(IF status = 401 THEN loginMessage ELSE Join(json.msgs, <<"</br>">>),
               TRUE)

-----------------------------------------------------------------------------
(* The page before any script has run (main.js 5-12): empty sink and status *)
(* line, nothing in flight.                                                 *)

NoBody ==
  [parsed |-> FALSE, truthy |-> FALSE, hasMsgs |-> FALSE, msgs |-> <<>>,
   hasIssues |-> FALSE, issues |-> <<>>, feed |-> FALSE, entries |-> <<>>]

NoStep ==
  [op |-> "load", kind |-> "none", url |-> <<>>, status |-> 0, body |-> NoBody]

NoCall == [fn |-> "none", args |-> <<>>]
NoRet == [done |-> FALSE, val |-> <<>>]

UIIdle ==
  /\ projectElement = Str(<<>>)
  /\ statusSelect = Str(<<>>)
  /\ inStatusFor = Str(<<>>)
  /\ userElement = Str(<<>>)
  /\ queryResult = [html |-> <<>>, hidden |-> TRUE]
  /\ statusElement = [html |-> <<>>, hidden |-> TRUE]
  /\ startup = [pc |-> "unloaded", status |-> 0, body |-> NoBody]
  /\ options = "unrequested"
  /\ onclick = FALSE
  /\ inflight = EmptyBag
  /\ step = NoStep

-----------------------------------------------------------------------------
(* The exported isValid applied to every triple of a bounded input set, as  *)
(* main.test.js 12-16 applies it.                                           *)

StringsUpTo(chars, n) == UNION {[1..k -> chars] : k \in 0..n}

DaysChars == {"0", "1", "-", " ", "a"}

DaysInputs ==
  {Str(x) : x \in StringsUpTo(DaysChars, MaxStrLen)}
    \cup {Num(k) : k \in (0 - MaxNum)..MaxNum} \cup {NaN}

ProjectInputs == {Str(<<>>), Str(<<"Sunshine">>)}

StatusInputs == {Str(<<>>), Str(<<"0">>), Str(<<"1">>), Num(0), Num(1), Num(3)}

InitValid ==
  /\ UIIdle
  /\ call \in {[fn |-> "isValid", args |-> <<p, st, d>>] :
                 p \in ProjectInputs, st \in StatusInputs, d \in DaysInputs}
  /\ ret = NoRet

CallIsValid ==
  /\ call.fn = "isValid"
  /\ ~ret.done
  /\ ret' = [done |-> TRUE,
             val |-> isValid(call.args[1], call.args[2], call.args[3])]
  /\ UNCHANGED <<uiVars, call>>

NextValid == CallIsValid

SpecValid == InitValid /\ [][NextValid]_vars

-----------------------------------------------------------------------------
(* The exported resultsTable applied to bounded row sequences, as           *)
(* main.test.js 59-78 applies it to the rows buildQueryItems made.          *)

testIssue == Issue(Num(1), Str(<<"test">>), Str(<<"testURL">>), Str(<<"testName">>),
                   Str(<<"testSummary">>))

otherIssue == Issue(Str(<<"SUN-7">>), Str(<<"open">>), Str(<<"openURL">>),
                    Str(<<"Open">>), Str(<<"other">>))

testEntry == [updated |-> <<"2019-03-01T10:00:00.000Z">>,
              title |-> <<"<a>", "nyx", "</a>", " commented on ", "<b>", "SUN-7", "</b>">>]

\* rows as the mappers make them, and the empty string
RowInputs == {QueryRow(testIssue), QueryRow(otherIssue), FeedRow(testEntry), <<>>}

NameInputs == {<<"Ticket Status Query">>, <<"JIRA Activity Query">>, <<"test query">>}

TypeInputs == {"query", "null", "activity"}

InitTable ==
  /\ UIIdle
  /\ call \in {[fn |-> "resultsTable", args |-> <<rows, name, type>>] :
                 rows \in StringsUpTo(RowInputs, MaxRows), name \in NameInputs,
                 type \in TypeInputs}
  /\ ret = NoRet

CallResultsTable ==
  /\ call.fn = "resultsTable"
  /\ ~ret.done
  /\ ret' = [done |-> TRUE,
             val |-> resultsTable(call.args[1], call.args[2], call.args[3])]
  /\ UNCHANGED <<uiVars, call>>

NextTable == CallResultsTable

SpecTable == InitTable /\ [][NextTable]_vars

-----------------------------------------------------------------------------
(* Claims about the validator.                                              *)

IsValidReturned == call.fn = "isValid" /\ ret.done

\* what the claim calls numeric: a number other than NaN, or a string that,
\* surrounding spaces aside, is an optionally signed run of digits
IsNumeric(v) ==
  CASE v.t = "num" -> TRUE
    [] v.t = "nan" -> FALSE
    [] OTHER -> LET t == Trim(v.s) IN
                AllDigits(t) \/ (t # <<>> /\ Head(t) = "-" /\ AllDigits(Tail(t)))

IsNegative(v) ==
  CASE v.t = "num" -> v.n < 0
    [] v.t = "nan" -> FALSE
    [] OTHER -> LET t == Trim(v.s) IN
                /\ t # <<>> /\ Head(t) = "-" /\ AllDigits(Tail(t))
                /\ DigitsValue(Tail(t)) > 0

Reports(errors, msg) == \E k \in 1..Len(errors) : errors[k] = msg

\* C7: isValid reports the days-in-status error exactly for the daysInStatus
\* values that are the empty string, not numeric, or negative, whatever the
\* project and the status are.
C7_DaysErrorIffNotNumericOrNegative ==
  IsValidReturned =>
    LET d == call.args[3] IN
    Reports(ret.val.errors, invalidStatusFor)
      <=> (IsEmptyString(d) \/ ~IsNumeric(d) \/ IsNegative(d))

\* the checks of lines 71-73 in their order, each with its message
FailingChecks(p, st, d) ==
  LET all == <<[fails |-> ~ToBoolean(p), msg |-> invalidProject],
               [fails |-> ~ToBoolean(st), msg |-> invalidStatus],
               [fails |-> DaysCheckFails(d), msg |-> invalidStatusFor]>>
      Failed(c) == c.fails
      sel == SelectSeq(all, Failed)
  IN  [k \in 1..Len(sel) |-> sel[k].msg]

\* C8: isValid always returns a result; its valid flag is true exactly when
\* its errors are empty; the errors are one per failing check in the order
\* project, status, daysInStatus; three empty inputs give three errors; a
\* status of 0 or "" always fails.
C8_ValidIffNoErrorsInCheckOrder ==
  IsValidReturned =>
    LET p == call.args[1]
        st == call.args[2]
        d == call.args[3]
        r == ret.val
    IN  /\ r.valid \in BOOLEAN
        /\ r.valid <=> (Len(r.errors) = 0)
        /\ r.errors = FailingChecks(p, st, d)
        /\ (p = Str(<<>>) /\ st = Str(<<>>) /\ d = Str(<<>>))
             => (~r.valid /\ r.errors = <<invalidProject, invalidStatus, invalidStatusFor>>)
        /\ (st \in {Num(0), Str(<<>>)}) => (~r.valid /\ Reports(r.errors, invalidStatus))

C8_Witness ==
  /\ IsValidReturned
  /\ call.args = <<Str(<<>>), Str(<<>>), Str(<<>>)>>
  /\ ~ret.val.valid
  /\ Len(ret.val.errors) = 3

-----------------------------------------------------------------------------
(* Claims about the table renderer.                                         *)

TableReturned == call.fn = "resultsTable" /\ ret.done

\* the tokens of s from position from up to, not including, the first token
\* equal to stop
RECURSIVE Until(_, _, _)
Until(s, from, stop) ==
  IF from > Len(s) \/ s[from] = stop THEN <<>>
  ELSE <<s[from]>> \o Until(s, from + 1, stop)

IndexOf(s, tok) == CHOOSE k \in 1..Len(s) : s[k] = tok /\ \A j \in 1..(k - 1) : s[j] # tok

RECURSIVE LenSum(_, _)
LenSum(items, k) == IF k = 0 THEN 0 ELSE LenSum(items, k - 1) + Len(items[k])

Count(s, tok) == Cardinality({k \in 1..Len(s) : s[k] = tok})

\* C9: resultsTable emits the heading "<heading> Results", the header row
\* Issue/Status/Summary for kind "query" and Date/Activity otherwise, and a
\* body that is the rows in input order, or, for no rows, the single
\* empty-state row naming the heading.
C9_TableLayout ==
  TableReturned =>
    LET rows == call.args[1]
        name == call.args[2]
        type == call.args[3]
        out == ret.val
        n == Len(name)
        header == Until(out, IndexOf(out, "<thead>") + 1, "</thead>")
        body == Until(out, IndexOf(out, "<tbody>") + 1, "</tbody>")
    IN  /\ SubSeq(out, 1, n + 2) = <<"<h5>">> \o name \o <<" Results</h5>">>
        /\ Count(out, "<thead>") = 1 /\ Count(out, "<tbody>") = 1
        /\ out[Len(out)] = "</table>" /\ out[Len(out) - 1] = "</tbody>"
        /\ header = IF type = "query"
                      THEN <<"<tr>", "<th>Issue</th>", "<th>Status</th>",
                             "<th>Summary</th>", "</tr>">>
                      ELSE <<"<tr>", "<th>Date</th>", "<th>Activity</th>", "</tr>">>
        /\ IF rows # <<>>
             THEN /\ Len(body) = LenSum(rows, Len(rows))
                  /\ \A k \in 1..Len(rows) :
                       SubSeq(body, LenSum(rows, k - 1) + 1, LenSum(rows, k)) = rows[k]
             ELSE /\ body = <<"<tr>", "<td colspan=\"3\">", "There are no ">> \o name
                               \o <<" results", "</td>", "</tr>">>
                  /\ Count(body, "<tr>") = 1

C9_WitnessRows ==
  /\ TableReturned
  /\ call.args[1] = <<QueryRow(testIssue), QueryRow(otherIssue)>>
  /\ call.args[3] = "query"

-----------------------------------------------------------------------------
(* What the server and the network may answer.                              *)

\* a body response.json() rejects, or a body stream that fails: NoBody
JsonNull == [NoBody EXCEPT !.parsed = TRUE]
JsonObject == [NoBody EXCEPT !.parsed = TRUE, !.truthy = TRUE]
JsonErrors(msgs) == [JsonObject EXCEPT !.hasMsgs = TRUE, !.msgs = msgs]
JsonIssues(issues) == [JsonObject EXCEPT !.hasIssues = TRUE, !.issues = issues]
XmlNoFeed == JsonObject
XmlFeed(entries) == [JsonObject EXCEPT !.feed = TRUE, !.entries = entries]

networkErrorJson == JsonErrors(<<<<"Network Error">>>>)

ErrorStatuses == {401, 400}

ErrorBodies ==
  {NoBody, JsonObject,
   JsonErrors(<<<<"Error in the JQL Query.">>, <<"Field 'status' is invalid.">>>>)}

QueryBodies == {NoBody, JsonNull, JsonObject, JsonIssues(<<testIssue>>)}

FeedBodies == {NoBody, XmlNoFeed, XmlFeed(<<testEntry>>)}

ProjectBodies == {NoBody, JsonNull, JsonObject}

\* what the user may type or pick
ProjectValues == {Str(<<>>), Str(<<"Sunshine">>)}
DaysValues == {Str(<<"1">>), Str(<<"-", "1">>)}

\* what chrome.storage.sync.get hands to the callback: the defaults of line 249
StoredOptions == {[project |-> Str(<<"Sunshine">>), user |-> Str(<<"nyx.linden">>)]}

\* the handlers in flight
Handlers == BagToSet(inflight)

Event(op, h, body) ==
  [op |-> op, kind |-> h.kind, url |-> h.url, status |-> h.status, body |-> body]

formVars == <<projectElement, statusSelect, inStatusFor, userElement>>
startVars == <<startup, options, onclick>>
harnessVars == <<call, ret>>

-----------------------------------------------------------------------------
(* make_request (main.js 278-292), up to the status line it leaves.         *)

\* the non-OK branch once response.json() has settled with body: a rejected
\* json() and a TypeError of handleError both land in the catch of line 289
makeRequestError(body, status) ==
  IF ~body.parsed \/ handleErrorThrows(body, status)
    THEN handleError(networkErrorJson, 0)
    ELSE handleError(body, status)

\* fetch itself rejected
makeRequestNetworkFailure == handleError(networkErrorJson, 0)

-----------------------------------------------------------------------------
(* Startup (main.js 38-44, 248-254, 260-269, 323).                          *)

Init ==
  /\ projectElement = Str(<<>>)
  /\ statusSelect = Str(<<"1">>)
  /\ inStatusFor = Str(<<>>)
  /\ userElement = Str(<<>>)
  /\ queryResult = [html |-> <<>>, hidden |-> TRUE]
  /\ statusElement = [html |-> <<>>, hidden |-> TRUE]
  /\ startup = [pc |-> "fetch", status |-> 0, body |-> NoBody]
  /\ options = "unrequested"
  /\ onclick = FALSE
  /\ inflight = EmptyBag
  /\ step = NoStep
  /\ call = NoCall
  /\ ret = NoRet

StartEvent(op) == [NoStep EXCEPT !.op = op, !.kind = "project"]

\* fetch(projectURL) rejects: make_request reports it and returns undefined
CheckFetchFails ==
  /\ startup.pc = "fetch"
  /\ statusElement' = makeRequestNetworkFailure
  /\ startup' = [startup EXCEPT !.pc = "done"]
  /\ step' = StartEvent("checkFailed")
  /\ UNCHANGED <<formVars, queryResult, options, onclick, inflight, harnessVars>>

CheckFetchResponds(status) ==
  /\ startup.pc = "fetch"
  /\ startup' = [startup EXCEPT !.pc = IF status = 200 THEN "okBody" ELSE "errBody",
                                !.status = status]
  /\ step' = StartEvent("checkResponse")
  /\ UNCHANGED <<formVars, queryResult, statusElement, options, onclick, inflight,
                 harnessVars>>

\* non-OK: make_request reports the error and returns false
CheckErrorBodyRead(body) ==
  /\ startup.pc = "errBody"
  /\ statusElement' = makeRequestError(body, startup.status)
  /\ startup' = [startup EXCEPT !.pc = "done", !.body = body]
  /\ step' = StartEvent("checkFailed")
  /\ UNCHANGED <<formVars, queryResult, options, onclick, inflight, harnessVars>>

\* handleContentLoaded without the return of line 263
CheckOkBodyRead_AlwaysSetsUp(body) ==
  /\ startup.pc = "okBody"
  /\ startup' = [startup EXCEPT !.pc = "done", !.body = body]
  /\ options' = "pending"
  /\ inStatusFor' = Str(<<"1">>)
  /\ onclick' = TRUE
  /\ step' = StartEvent("checkPassed")
  /\ UNCHANGED <<projectElement, statusSelect, userElement, queryResult, statusElement,
                 inflight, harnessVars>>

\* OK: a rejected response.json() is caught by checkProjectExists (false); a
\* falsy JSON value makes exists falsy; otherwise the UI is set up
CheckOkBodyRead(body) ==
  /\ startup.pc = "okBody"
  /\ startup' = [startup EXCEPT !.pc = "done", !.body = body]
  /\ IF body.parsed /\ body.truthy
       THEN /\ options' = "pending"
            /\ inStatusFor' = Str(<<"1">>)
            /\ onclick' = TRUE
            /\ step' = StartEvent("checkPassed")
       ELSE /\ step' = StartEvent("checkSilent")
            /\ UNCHANGED <<options, inStatusFor, onclick>>
  /\ UNCHANGED <<projectElement, statusSelect, userElement, queryResult, statusElement,
                 inflight, harnessVars>>

\* the callback of chrome.storage.sync.get
OptionsCallback(items) ==
  /\ options = "pending"
  /\ options' = "loaded"
  /\ projectElement' = items.project
  /\ userElement' = items.user
  /\ step' = StartEvent("options")
  /\ UNCHANGED <<statusSelect, inStatusFor, queryResult, statusElement, startup, onclick,
                 inflight, harnessVars>>

-----------------------------------------------------------------------------
(* The user edits the form.                                                 *)

EditEvent == [NoStep EXCEPT !.op = "edit", !.kind = "form"]

EditProject(v) ==
  /\ projectElement # v
  /\ projectElement' = v
  /\ step' = EditEvent
  /\ UNCHANGED <<statusSelect, inStatusFor, userElement, queryResult, statusElement,
                 startVars, inflight, harnessVars>>

EditDays(v) ==
  /\ inStatusFor # v
  /\ inStatusFor' = v
  /\ step' = EditEvent
  /\ UNCHANGED <<projectElement, statusSelect, userElement, queryResult, statusElement,
                 startVars, inflight, harnessVars>>

-----------------------------------------------------------------------------
(* Click handlers (main.js 117-138, 175-183) and the requests they await    *)
(* (main.js 278-304).  A handler runs from one await to the next in one     *)
(* step; other handlers and edits may run in between.                       *)

queryTitle == <<"Ticket Status Query">>
feedTitle == <<"JIRA Activity Query">>

NewHandler(kind, url, args) ==
  [kind |-> kind, url |-> url, args |-> args, pc |-> "fetch", status |-> 0]

\* handleQueryClick without the return of line 127
HandleQueryClick_NoReturn ==
  /\ onclick
  /\ LET v == isValid(projectElement, statusSelect, inStatusFor)
         url == queryURL(projectElement, statusSelect, inStatusFor)
         h == NewHandler("query", url, <<projectElement, statusSelect, inStatusFor>>)
     IN  /\ BagCardinality(inflight) < MaxInFlight
         /\ queryResult' = IF v.valid THEN queryResult
                                      ELSE [queryResult EXCEPT !.hidden = TRUE]
         /\ statusElement' = updateStatus(<<"Performing JIRA search for ">> \o url, FALSE)
         /\ inflight' = inflight (+) SetToBag({h})
         /\ step' = Event("sent", h, NoBody)
  /\ UNCHANGED <<formVars, startVars, harnessVars>>

\* up to the return of line 127 or the await of line 132
HandleQueryClick ==
  /\ onclick
  /\ LET v == isValid(projectElement, statusSelect, inStatusFor)
         url == queryURL(projectElement, statusSelect, inStatusFor)
         h == NewHandler("query", url, <<projectElement, statusSelect, inStatusFor>>)
     IN  IF ~v.valid
           THEN /\ queryResult' = [queryResult EXCEPT !.hidden = TRUE]
                /\ statusElement' = updateStatus(Join(v.errors, <<"<br/>">>), TRUE)
                /\ step' = Event("rejected", h, NoBody)
                /\ UNCHANGED inflight
           ELSE /\ BagCardinality(inflight) < MaxInFlight
                /\ statusElement' = updateStatus(<<"Performing JIRA search for ">> \o url,
                                                 FALSE)
                /\ inflight' = inflight (+) SetToBag({h})
                /\ step' = Event("sent", h, NoBody)
                /\ UNCHANGED queryResult
  /\ UNCHANGED <<formVars, startVars, harnessVars>>

\* up to the await of line 178
HandleFeedClick ==
  /\ onclick
  /\ BagCardinality(inflight) < MaxInFlight
  /\ LET url == feedURL(userElement)
         h == NewHandler("feed", url, <<userElement>>)
     IN  /\ statusElement' = updateStatus(<<"Activity query: ">> \o url \o <<"\n">>, FALSE)
         /\ inflight' = inflight (+) SetToBag({h})
         /\ step' = Event("sent", h, NoBody)
  /\ UNCHANGED <<formVars, queryResult, startVars, harnessVars>>

\* the network failure also hiding the sink, as the validation failure does
FetchFails_HidesSink(h) ==
  /\ h \in Handlers
  /\ h.pc = "fetch"
  /\ statusElement' = makeRequestNetworkFailure
  /\ queryResult' = [queryResult EXCEPT !.hidden = TRUE]
  /\ inflight' = inflight (-) SetToBag({h})
  /\ step' = Event("failed", h, NoBody)
  /\ UNCHANGED <<formVars, startVars, harnessVars>>

\* fetch rejects (line 280): the catch reports a network error, make_request
\* returns undefined and the handler ends
FetchFails(h) ==
  /\ h \in Handlers
  /\ h.pc = "fetch"
  /\ statusElement' = makeRequestNetworkFailure
  /\ inflight' = inflight (-) SetToBag({h})
  /\ step' = Event("failed", h, NoBody)
  /\ UNCHANGED <<formVars, queryResult, startVars, harnessVars>>

\* fetch resolves with a response: the handler goes on to await its body
\* (response.json() of line 283, or handleResponse of line 288)
FetchResponds(h, status) ==
  /\ h \in Handlers
  /\ h.pc = "fetch"
  /\ LET g == [h EXCEPT !.pc = IF status = 200 THEN "okBody" ELSE "errBody",
                         !.status = status]
     IN  /\ inflight' = (inflight (-) SetToBag({h})) (+) SetToBag({g})
         /\ step' = Event("response", g, NoBody)
  /\ UNCHANGED <<formVars, queryResult, statusElement, startVars, harnessVars>>

\* the body of a non-OK response has settled (lines 283-285, 289-290)
ErrorBodyRead(h, body) ==
  /\ h \in Handlers
  /\ h.pc = "errBody"
  /\ statusElement' = makeRequestError(body, h.status)
  /\ inflight' = inflight (-) SetToBag({h})
  /\ step' = Event("failed", h, body)
  /\ UNCHANGED <<formVars, queryResult, startVars, harnessVars>>

\* the body of an OK response to the search has settled (lines 301-302, then
\* 133-137): a rejected response.json() rejects the handler, since line 288
\* returns the promise without awaiting it inside the try
QueryBodyRead(h, body) ==
  /\ h \in Handlers
  /\ h.pc = "okBody"
  /\ h.kind = "query"
  /\ inflight' = inflight (-) SetToBag({h})
  /\ IF ~body.parsed
       THEN /\ step' = Event("crashed", h, body)
            /\ UNCHANGED <<queryResult, statusElement>>
       ELSE IF ~body.truthy
       THEN /\ step' = Event("ignored", h, body)
            /\ UNCHANGED <<queryResult, statusElement>>
       ELSE /\ queryResult' =
                 buildResultsTable(
                   buildQueryItems(IF body.hasIssues THEN body.issues ELSE <<>>),
                   queryTitle, "query")
            /\ statusElement' =
                 updateStatus(<<"Query term: ">> \o h.url \o <<"\n">>, FALSE)
            /\ step' = Event("rendered", h, body)
  /\ UNCHANGED <<formVars, startVars, harnessVars>>

\* the body of an OK response to the feed has settled (lines 303, then
\* 179-182): a failed response.text() and a TypeError of buildFeedItems
\* both reject the handler
FeedBodyRead(h, body) ==
  /\ h \in Handlers
  /\ h.pc = "okBody"
  /\ h.kind = "feed"
  /\ inflight' = inflight (-) SetToBag({h})
  /\ LET doc == [feed |-> body.feed, entries |-> body.entries]
         built == buildFeedItems(doc)
     IN  IF ~body.parsed \/ built.threw
           THEN /\ step' = Event("crashed", h, body)
                /\ UNCHANGED queryResult
           ELSE /\ queryResult' = buildResultsTable(built.items, feedTitle, "null")
                /\ step' = Event("rendered", h, body)
  /\ UNCHANGED <<formVars, statusElement, startVars, harnessVars>>

-----------------------------------------------------------------------------

Next ==
  \/ CheckFetchFails
  \/ \E status \in ErrorStatuses \cup {200} : CheckFetchResponds(status)
  \/ \E body \in ErrorBodies : CheckErrorBodyRead(body)
  \/ \E body \in ProjectBodies : CheckOkBodyRead(body)
  \/ \E items \in StoredOptions : OptionsCallback(items)
  \/ \E v \in ProjectValues : EditProject(v)
  \/ \E v \in DaysValues : EditDays(v)
  \/ HandleQueryClick
  \/ HandleFeedClick
  \/ \E h \in Handlers : FetchFails(h)
  \/ \E h \in Handlers, status \in ErrorStatuses \cup {200} : FetchResponds(h, status)
  \/ \E h \in Handlers, body \in ErrorBodies : ErrorBodyRead(h, body)
  \/ \E h \in Handlers, body \in QueryBodies : QueryBodyRead(h, body)
  \/ \E h \in Handlers, body \in FeedBodies : FeedBodyRead(h, body)

Spec == Init /\ [][Next]_vars

-----------------------------------------------------------------------------
(* Claims about the request orchestration.                                  *)

IsError(html) == Len(html) > 0 /\ html[1] = "ERROR. "

Contains(html, part) ==
  \E k \in 1..(Len(html) - Len(part) + 1) : SubSeq(html, k, k + Len(part) - 1) = part

\* C1: a non-OK response to a query or feed request ends with the status line
\* showing "ERROR. " and the fixed login text for a 401, whatever the body,
\* and otherwise the body's errorMessages joined; the sink is not rendered.
C1_HttpErrorMessage ==
  [][(step'.op = "failed" /\ step'.status \in ErrorStatuses) =>
       /\ IsError(statusElement'.html)
       /\ step'.status = 401 =>
            statusElement'.html =
              <<"ERROR. ", "You must be logged in to JIRA to see this project.">>
       /\ (step'.status # 401 /\ step'.body.hasMsgs) =>
            statusElement'.html = <<"ERROR. ">> \o Join(step'.body.msgs, <<"</br>">>)
       /\ queryResult' = queryResult]_vars

\* C2: a query or feed cycle that ends in an error of any kind (validation,
\* HTTP status, network, an OK body that cannot be parsed, a feed document
\* with no feed element) leaves the status line starting with "ERROR.".
C2_EveryErrorShown ==
  step.op \in {"rejected", "failed", "crashed"} => IsError(statusElement.html)

\* C3: a query click on a form that fails validation hides the sink, writes
\* the joined validation errors as an error and issues no request; every
\* query request in flight was built from values that passed validation.
C3_RejectedWithoutRequest ==
  /\ [][(HandleQueryClick /\ ~isValid(projectElement, statusSelect, inStatusFor).valid) =>
          /\ queryResult'.hidden
          /\ queryResult'.html = queryResult.html
          /\ statusElement' =
               [html |-> <<"ERROR. ">>
                           \o Join(isValid(projectElement, statusSelect, inStatusFor).errors,
                                   <<"<br/>">>),
                hidden |-> FALSE]
          /\ inflight' = inflight]_vars
  /\ [](\A h \in Handlers :
          h.kind = "query" => isValid(h.args[1], h.args[2], h.args[3]).valid)

C3_Witness ==
  /\ step.op = "rejected"
  /\ queryResult.hidden
  /\ queryResult.html # <<>>
  /\ Len(isValid(projectElement, statusSelect, inStatusFor).errors) = 2
  /\ IsError(statusElement.html)
  /\ inflight # EmptyBag

\* the startup check ended without a successful JSON response
StartupFailed == startup.pc = "done" /\ ~(startup.status = 200 /\ startup.body.parsed)

SetupSkipped == ~onclick /\ options = "unrequested" /\ inflight = EmptyBag

C5_AtMostOneInFlight == BagCardinality(inflight) <= 1

\* the table the handler of step renders from the body it read
RenderedFrom(e) ==
  IF e.kind = "query"
    THEN resultsTable(buildQueryItems(IF e.body.hasIssues THEN e.body.issues ELSE <<>>),
                      <<"Ticket Status Query">>, "query")
    ELSE resultsTable(buildFeedItems([feed |-> e.body.feed, entries |-> e.body.entries]).items,
                      <<"JIRA Activity Query">>, "activity")

\* C6: a cycle whose request returns OK with a well-formed body ends with the
\* sink holding the table rendered from that response, un-hidden, and the
\* status line holding a non-error message that echoes the cycle's URL.
C6_RenderedShowsTableAndUrl ==
  step.op = "rendered" =>
    /\ queryResult = [html |-> RenderedFrom(step), hidden |-> FALSE]
    /\ ~IsError(statusElement.html)
    /\ Contains(statusElement.html, step.url)

\* C10: a handler that fails after its request was sent (non-OK status or
\* network failure) leaves the sink's content and hidden flag as they were,
\* and only a validation failure hides a visible sink.
C10_FailureLeavesSink ==
  [][/\ step'.op = "failed" => queryResult' = queryResult
     /\ (queryResult'.hidden /\ ~queryResult.hidden) => step'.op = "rejected"]_vars

C10_Witness ==
  /\ step.op = "failed"
  /\ ~queryResult.hidden
  /\ queryResult.html = RenderedFrom([kind |-> "query", body |-> JsonIssues(<<testIssue>>)])
  /\ IsError(statusElement.html)

=============================================================================
